---- MODULE Spec2Model ----
(***************************************************************************)
(* A model of IDS.py: the configuration readers (read_events,              *)
(* read_statistics), the event sampler (generate_events), the baseline     *)
(* aggregator (analyze_stats) and the driver (main).                       *)
(*                                                                         *)
(* Text is a sequence of one-character strings.  Numbers are fixed-point:  *)
(* a real x is held as the integer x * Scale, so one unit is 0.005, the    *)
(* coarsest grid that holds both the two-decimal values the program        *)
(* writes and the eighths (0.125, 0.375, ...), which are the doubles that  *)
(* lie exactly half-way between two two-decimal values.                    *)
(***************************************************************************)
EXTENDS Integers, Sequences, FiniteSets, TLC

VARIABLES
    pc,          \* position of the process inside main()
    err,         \* the exception that ended the process, or "none"
    events_text, \* lines of the file named by sys.argv[1]
    stats_text,  \* lines of the file named by sys.argv[2]
    days_arg,    \* sys.argv[3]
    days,        \* int(sys.argv[3])
    events,      \* global dict events
    statistics,  \* global dict statistics
    samples,     \* the values random.gauss returned, by <<day, name>>
    all_events,  \* the list generate_events returns
    written,     \* day indexes whose log file this generate_events call wrote
    logdir,      \* whether the directory LOG_DIR exists
    logs,        \* the day_<n>.log files of LOG_DIR, by n
    baseline,    \* the dict analyze_stats returns
    runs         \* number of processes started so far

vars == <<pc, err, events_text, stats_text, days_arg, days, events, statistics,
          samples, all_events, written, logdir, logs, baseline, runs>>

(***************************************************************************)
(* Bounds of the model.                                                    *)
(***************************************************************************)
MaxDays == 2
MaxRuns == 2
MaxLines == 3
MaxRecords == 3

(***************************************************************************)
(* Numbers.                                                                *)
(***************************************************************************)
Scale == 200
Inf == 1000000

Abs(x) == IF x < 0 THEN -x ELSE x
Min2(a, b) == IF b < a THEN b ELSE a
Max2(a, b) == IF b > a THEN b ELSE a

\* int(x) of a finite float: truncation toward zero.
IntOf(x) == IF x >= 0 THEN (x \div Scale) * Scale ELSE -(((-x) \div Scale) * Scale)

\* round(x, 2) of a double held exactly: the nearest two-decimal value, a
\* value exactly half-way going to the even hundredth.
Round2(x) ==
    IF x % 2 = 0 THEN x
    ELSE IF ((x - 1) \div 2) % 2 = 0 THEN x - 1 ELSE x + 1

(***************************************************************************)
(* Text.                                                                   *)
(***************************************************************************)
Digit == {"0", "1", "2", "3", "4", "5", "6", "7", "8", "9"}
Space == {" ", "\n"}

DigitVal(c) ==
    CASE c = "0" -> 0 [] c = "1" -> 1 [] c = "2" -> 2 [] c = "3" -> 3
      [] c = "4" -> 4 [] c = "5" -> 5 [] c = "6" -> 6 [] c = "7" -> 7
      [] c = "8" -> 8 [] c = "9" -> 9

RECURSIVE LStrip(_)
LStrip(s) == IF s # <<>> /\ Head(s) \in Space THEN LStrip(Tail(s)) ELSE s

RECURSIVE RStrip(_)
RStrip(s) ==
    IF s # <<>> /\ s[Len(s)] \in Space THEN RStrip(SubSeq(s, 1, Len(s) - 1)) ELSE s

\* str.strip()
Strip(s) == RStrip(LStrip(s))

RECURSIVE SplitFrom(_, _, _)
SplitFrom(s, cur, acc) ==
    IF s = <<>> THEN Append(acc, cur)
    ELSE IF Head(s) = ":" THEN SplitFrom(Tail(s), <<>>, Append(acc, cur))
    ELSE SplitFrom(Tail(s), Append(cur, Head(s)), acc)

\* str.split(":")
Split(s) == SplitFrom(s, <<>>, <<>>)

AllDigits(s) == \A i \in 1..Len(s) : s[i] \in Digit

RECURSIVE NatOf(_)
NatOf(s) == IF s = <<>> THEN 0 ELSE NatOf(SubSeq(s, 1, Len(s) - 1)) * 10 + DigitVal(s[Len(s)])

Signed(s) == s # <<>> /\ Head(s) \in {"-", "+"}
Unsigned(s) == IF Signed(s) THEN Tail(s) ELSE s
SignOf(s) == IF s # <<>> /\ Head(s) = "-" THEN -1 ELSE 1

\* int(text): [ok, val]; ok is FALSE where int raises ValueError.
ParseInt(text) ==
    LET s == Strip(text)
        body == Unsigned(s)
    IN  IF body # <<>> /\ AllDigits(body)
        THEN [ok |-> TRUE, val |-> SignOf(s) * NatOf(body)]
        ELSE [ok |-> FALSE, val |-> 0]

DotAt(s) == IF \E i \in 1..Len(s) : s[i] = "." THEN CHOOSE i \in 1..Len(s) : s[i] = "." ELSE 0

\* The fraction digits as a count of units (tokens carry at most three
\* decimals, a multiple of 0.005).
FracOf(f) ==
    LET d(i) == IF i <= Len(f) THEN DigitVal(f[i]) ELSE 0
    IN  ((d(1) * 100 + d(2) * 10 + d(3)) * Scale) \div 1000

\* float(text): [ok, val]; ok is FALSE where float raises ValueError.
ParseFloat(text) ==
    LET s == Strip(text)
        body == Unsigned(s)
        k == DotAt(body)
        ip == IF k = 0 THEN body ELSE SubSeq(body, 1, k - 1)
        fp == IF k = 0 THEN <<>> ELSE SubSeq(body, k + 1, Len(body))
    IN  IF AllDigits(ip) /\ AllDigits(fp) /\ Len(ip) + Len(fp) > 0
        THEN [ok |-> TRUE, val |-> SignOf(s) * (NatOf(ip) * Scale + FracOf(fp))]
        ELSE [ok |-> FALSE, val |-> 0]

(***************************************************************************)
(* Dictionaries: functions whose domain is the set of keys.                *)
(***************************************************************************)
EmptyDict == [k \in {} |-> 0]

\* d[key] = value
Put(d, key, value) == (key :> value) @@ d

\* A reader that takes lines[1:n], one record short.
SliceEndShort(n, len) == IF n >= 0 THEN Min2(n, len) ELSE Max2(len + n, 0)

\* lines[1:n + 1] of a list of len lines, as the last index it takes.
SliceEnd(n, len) == IF n + 1 >= 0 THEN Min2(n + 1, len) ELSE Max2(len + n + 1, 0)

(***************************************************************************)
(* read_events                                                             *)
(***************************************************************************)
TypeC == <<"C">>

RECURSIVE EventLines(_, _, _)
EventLines(lines, i, acc) ==
    IF i > Len(lines) THEN [err |-> "none", map |-> acc]
    ELSE LET parts == Split(Strip(lines[i]))
         IN  IF Len(parts) # 5 THEN EventLines(lines, i + 1, acc)
             ELSE LET mn == IF parts[3] # <<>> THEN ParseFloat(parts[3])
                                               ELSE [ok |-> TRUE, val |-> 0]
                      mx == IF parts[4] # <<>> THEN ParseFloat(parts[4])
                                               ELSE [ok |-> TRUE, val |-> Inf]
                      w  == ParseInt(parts[5])
                  IN  IF ~(mn.ok /\ mx.ok /\ w.ok)
                      THEN [err |-> "ValueError", map |-> acc]
                      ELSE EventLines(lines, i + 1,
                               Put(acc, parts[1],
                                   [type |-> parts[2], min |-> mn.val,
                                    max |-> mx.val, weight |-> w.val]))

ParseEvents(lines, dict) ==
    IF lines = <<>> THEN [err |-> "IndexError", map |-> dict]
    ELSE LET n == ParseInt(lines[1])
         IN  IF ~n.ok THEN [err |-> "ValueError", map |-> dict]
             ELSE EventLines(SubSeq(lines, 2, SliceEnd(n.val, Len(lines))), 1, dict)

(***************************************************************************)
(* read_statistics                                                         *)
(***************************************************************************)
RECURSIVE StatLines(_, _, _)
StatLines(lines, i, acc) ==
    IF i > Len(lines) THEN [err |-> "none", map |-> acc]
    ELSE LET parts == Split(Strip(lines[i]))
         IN  IF Len(parts) # 4 THEN StatLines(lines, i + 1, acc)
             ELSE LET mean == ParseFloat(parts[2])
                      sd   == ParseFloat(parts[3])
                  IN  IF ~(mean.ok /\ sd.ok)
                      THEN [err |-> "ValueError", map |-> acc]
                      ELSE StatLines(lines, i + 1,
                               Put(acc, parts[1], [mean |-> mean.val, std_dev |-> sd.val]))

ParseStatistics(lines, dict) ==
    IF lines = <<>> THEN [err |-> "IndexError", map |-> dict]
    ELSE LET n == ParseInt(lines[1])
         IN  IF ~n.ok THEN [err |-> "ValueError", map |-> dict]
             ELSE StatLines(SubSeq(lines, 2, SliceEnd(n.val, Len(lines))), 1, dict)

(***************************************************************************)
(* generate_events                                                         *)
(***************************************************************************)
DayKey == <<"D", "a", "y">>

\* The events the inner loop samples: keys of events that are keys of statistics.
Sampled(ev, st) == {n \in DOMAIN ev : n \in DOMAIN st}

\* int(event_info["max"]) raises OverflowError on float("inf").
Overflows(info) == info.type # TypeC /\ info.max = Inf

\* The value stored for one event from one draw of random.gauss.
ValueOf(info, raw) ==
    IF info.type = TypeC
    THEN Round2(Max2(info.min, Min2(raw, info.max)))
    ELSE Max2(IntOf(info.min), Min2(IntOf(raw), IntOf(info.max)))

\* daily_events of one day: {"Day": day + 1}, then one assignment per sampled event.
daily_events(d, ev, st, raw) ==
    [k \in {DayKey} \cup Sampled(ev, st) |->
        IF k \in Sampled(ev, st) THEN ValueOf(ev[k], raw[<<d, k>>]) ELSE d * Scale]

\* A log file: the pairs its text shows, and whether the text is a whole JSON
\* document (json.dump wrote it) or one cut short of it.
JsonFile(rec) == [ok |-> TRUE, data |-> rec]
CorruptFile(rec) == [ok |-> FALSE, data |-> rec]

(***************************************************************************)
(* analyze_stats                                                           *)
(***************************************************************************)
SetMin(S) == CHOOSE m \in S : \A x \in S : m <= x

\* The sorted listing of the day_<n>.log files.
RECURSIVE log_files(_)
log_files(S) == IF S = {} THEN <<>> ELSE <<SetMin(S)>> \o log_files(S \ {SetMin(S)})

\* A lenient parser that returns the pairs of a text cut short.
ParsesLenient(f) == TRUE

\* Whether json.load returns the file's pairs (it raises JSONDecodeError on a
\* text that is no JSON document).
Parses(f) == f.ok

\* An aggregator that collects the Day tag as if it were an event.
TrackedWithDay(ev) == DOMAIN ev \cup {DayKey}

\* The names daily_totals is created with.
Tracked(ev) == DOMAIN ev

\* The loop over the log files: a file json.load rejects is skipped.
RECURSIVE daily_totals(_, _, _, _)
daily_totals(files, order, i, totals) ==
    IF i > Len(order) THEN totals
    ELSE LET f == files[order[i]]
         IN  IF ~Parses(f) THEN daily_totals(files, order, i + 1, totals)
             ELSE daily_totals(files, order, i + 1,
                      [n \in DOMAIN totals |->
                          IF n \in DOMAIN f.data THEN Append(totals[n], f.data[n])
                          ELSE totals[n]])

RECURSIVE SumSeq(_)
SumSeq(s) == IF s = <<>> THEN 0 ELSE Head(s) + SumSeq(Tail(s))

\* sum((x - mean) ** 2 for x in values) with mean = total / n, times n * n.
RECURSIVE SquaredDeviations(_, _, _)
SquaredDeviations(s, total, n) ==
    IF s = <<>> THEN 0
    ELSE (n * Head(s) - total) * (n * Head(s) - total) + SquaredDeviations(Tail(s), total, n)

\* The divisor of the sample variance.
VarianceDivisorSample(n) == IF n > 1 THEN n - 1 ELSE 1

\* The divisor of the variance.
VarianceDivisor(n) == n

\* round(num / den, 2): the two-decimal values nearest the quotient.  The quotient
\* is a double; where the exact quotient lies half-way between two two-decimal
\* values, the double lies on either side of it.
RoundRatio(num, den) ==
    LET h == num \div (2 * den)
        rem == num - 2 * h * den
    IN  IF rem < den THEN {2 * h}
        ELSE IF rem > den THEN {2 * h + 2}
        ELSE {2 * h, 2 * h + 2}

\* The least h with q <= (2h + 1)^2, between lo and hi.
RECURSIVE LeastRoot(_, _, _)
LeastRoot(q, lo, hi) ==
    IF lo >= hi THEN lo
    ELSE LET mid == (lo + hi) \div 2
         IN  IF q <= (2 * mid + 1) * (2 * mid + 1) THEN LeastRoot(q, lo, mid)
             ELSE LeastRoot(q, mid + 1, hi)

RECURSIVE RootBound(_, _)
RootBound(q, h) == IF q <= (2 * h + 1) * (2 * h + 1) THEN h ELSE RootBound(q, 2 * h + 1)

\* round(math.sqrt(num / den), 2), as RoundRatio.
RoundSqrt(num, den) ==
    LET q == (num + den - 1) \div den
        h == LeastRoot(q, 0, RootBound(q, 0))
    IN  IF num = (2 * h + 1) * (2 * h + 1) * den THEN {2 * h, 2 * h + 2} ELSE {2 * h}

\* The entries baseline_statistics may get for one list of values.
StatisticsOf(values) ==
    LET n == Len(values)
        total == SumSeq(values)
    IN  {[total |-> total, mean |-> m, std_dev |-> s] :
            m \in RoundRatio(total, n),
            s \in RoundSqrt(SquaredDeviations(values, total, n), n * n * VarianceDivisor(n))}

\* The dicts analyze_stats may return.
Baselines(ev, files) ==
    LET totals == daily_totals(files, log_files(DOMAIN files), 1,
                              [n \in Tracked(ev) |-> <<>>])
        found == {n \in DOMAIN totals : totals[n] # <<>>}
    IN  {b \in [found -> UNION {StatisticsOf(totals[n]) : n \in found}] :
            \A n \in found : b[n] \in StatisticsOf(totals[n])}

(***************************************************************************)
(* Inputs: the configuration files, the command line, the draws.           *)
(***************************************************************************)
RECURSIVE Join(_)
Join(fields) ==
    IF Len(fields) = 1 THEN fields[1] ELSE fields[1] \o <<":">> \o Join(Tail(fields))

\* One line of a file as readlines() returns it.
Line(fields) == Join(fields) \o <<"\n">>

DigitText(n) == <<(<<"0", "1", "2", "3", "4", "5", "6", "7", "8", "9">>)[n + 1]>>

NameA == <<"A">>
NameB == <<"B">>
NameX == <<"X">>
TypeD == <<"D">>

\* A:C:0.125:2.5:1
EvA == Line(<<NameA, TypeC, <<"0", ".", "1", "2", "5">>, <<"2", ".", "5">>, <<"1">>>>)
\* B:D:0.5:3.5:2
EvB == Line(<<NameB, TypeD, <<"0", ".", "5">>, <<"3", ".", "5">>, <<"2">>>>)
\* B:D:-1.5:-0.5:1
EvBNeg == Line(<<NameB, TypeD, <<"-", "1", ".", "5">>, <<"-", "0", ".", "5">>, <<"1">>>>)
\* B:D:0::2, the shape of the docstring's "Logins" (no maximum)
EvBOpen == Line(<<NameB, TypeD, <<"0">>, <<>>, <<"2">>>>)
\* A:C:::1
EvAOpen == Line(<<NameA, TypeC, <<>>, <<>>, <<"1">>>>)
\* Day:C:0:5:1
EvDay == Line(<<DayKey, TypeC, <<"0">>, <<"5">>, <<"1">>>>)
\* B:C:0:5 (four fields)
EvShort == Line(<<NameB, TypeC, <<"0">>, <<"5">>>>)
\* A:C:0:5:x (a weight int() rejects)
EvBadWeight == Line(<<NameA, TypeC, <<"0">>, <<"5">>, <<"x">>>>)
\* " B:D: 1 :3:2 " (blanks around the line and inside a number)
EvBlanks == <<" ">> \o Join(<<NameB, TypeD, <<" ", "1", " ">>, <<"3">>, <<"2">>>>) \o <<" ", "\n">>

\* A:1.5:1:
StA == Line(<<NameA, <<"1", ".", "5">>, <<"1">>, <<>>>>)
\* B:2:0.5:
StB == Line(<<NameB, <<"2">>, <<"0", ".", "5">>, <<>>>>)
\* Day:3:1:
StDay == Line(<<DayKey, <<"3">>, <<"1">>, <<>>>>)
\* X:1:1:
StX == Line(<<NameX, <<"1">>, <<"1">>, <<>>>>)
\* A:1.5:1 (three fields)
StShort == Line(<<NameA, <<"1", ".", "5">>, <<"1">>>>)
\* B::1: (a mean float() rejects)
StBadMean == Line(<<NameB, <<>>, <<"1">>, <<>>>>)

File(n, lines) == <<Line(<<DigitText(n)>>)>> \o lines

EventFiles ==
    { File(2, <<EvA, EvB>>),
      File(2, <<EvDay, EvBNeg>>),
      File(3, <<EvAOpen, EvShort, EvBOpen>>) }

StatFiles ==
    { File(2, <<StA, StB>>),
      File(3, <<StDay, StX, StShort>>),
      File(1, <<StA, StX>>) }

DayArgs == {DigitText(d) : d \in 0..MaxDays} \cup {<<"x">>}

\* Values random.gauss may return: -10.0, -0.875, 1.375, 10.0.
RawSamples == {-2000, -175, 275, 2000}

(***************************************************************************)
(* The process: main() and the functions it calls, in order.               *)
(***************************************************************************)
Init ==
    /\ pc = "idle"
    /\ err = "none"
    /\ events_text = <<>>
    /\ stats_text = <<>>
    /\ days_arg = <<>>
    /\ days = 0
    /\ events = EmptyDict
    /\ statistics = EmptyDict
    /\ samples = EmptyDict
    /\ all_events = <<>>
    /\ written = {}
    /\ logdir = FALSE
    /\ logs = EmptyDict
    /\ baseline = EmptyDict
    /\ runs = 0

Running == pc \in {"read_events", "read_statistics", "generate", "analyze"} /\ err = "none"

\* A process starts: the module's globals are empty, main() checks the number of
\* its arguments, the days argument and that both paths name files, and exits
\* with status 1 where a check fails.
main ==
    /\ ~Running
    /\ runs < MaxRuns
    /\ \E ef \in EventFiles, sf \in StatFiles, da \in DayArgs,
          argc \in {3, 4}, isfile \in BOOLEAN :
          /\ events_text' = ef
          /\ stats_text' = sf
          /\ days_arg' = da
          /\ days' = ParseInt(da).val
          /\ pc' = IF argc = 4 /\ ParseInt(da).ok /\ isfile THEN "read_events" ELSE "exited"
    /\ err' = "none"
    /\ events' = EmptyDict
    /\ statistics' = EmptyDict
    /\ samples' = EmptyDict
    /\ all_events' = <<>>
    /\ written' = {}
    /\ baseline' = EmptyDict
    /\ runs' = runs + 1
    /\ UNCHANGED <<logdir, logs>>

read_events ==
    /\ pc = "read_events" /\ err = "none"
    /\ LET r == ParseEvents(events_text, events)
       IN  /\ events' = r.map
           /\ err' = r.err
           /\ pc' = IF r.err = "none" THEN "read_statistics" ELSE pc
    /\ UNCHANGED <<events_text, stats_text, days_arg, days, statistics, samples,
                   all_events, written, logdir, logs, baseline, runs>>

read_statistics ==
    /\ pc = "read_statistics" /\ err = "none"
    /\ LET r == ParseStatistics(stats_text, statistics)
       IN  /\ statistics' = r.map
           /\ err' = r.err
           /\ pc' = IF r.err = "none" THEN "generate" ELSE pc
    /\ UNCHANGED <<events_text, stats_text, days_arg, days, events, samples,
                   all_events, written, logdir, logs, baseline, runs>>

generate_events ==
    /\ pc = "generate" /\ err = "none"
    /\ logdir' = TRUE
    /\ IF days >= 1 /\ \E n \in Sampled(events, statistics) : Overflows(events[n])
       THEN /\ err' = "OverflowError"
            /\ pc' = pc
            /\ UNCHANGED <<samples, all_events, written, logs>>
       ELSE \E raw \in [(1..days) \X Sampled(events, statistics) -> RawSamples] :
            /\ samples' = raw
            /\ all_events' = [d \in 1..days |-> daily_events(d, events, statistics, raw)]
            /\ logs' = [d \in DOMAIN logs \cup (1..days) |->
                           IF d \in 1..days
                           THEN JsonFile(daily_events(d, events, statistics, raw))
                           ELSE logs[d]]
            /\ written' = 1..days
            /\ err' = "none"
            /\ pc' = "analyze"
    /\ UNCHANGED <<events_text, stats_text, days_arg, days, events, statistics,
                   baseline, runs>>

analyze_stats ==
    /\ pc = "analyze" /\ err = "none"
    /\ IF ~logdir
       THEN /\ err' = "FileNotFoundError"
            /\ pc' = pc
            /\ UNCHANGED baseline
       ELSE /\ baseline' \in Baselines(events, logs)
            /\ err' = "none"
            /\ pc' = "done"
    /\ UNCHANGED <<events_text, stats_text, days_arg, days, events, statistics,
                   samples, all_events, written, logdir, logs, runs>>

Next == main \/ read_events \/ read_statistics \/ generate_events \/ analyze_stats

Spec == Init /\ [][Next]_vars

(***************************************************************************)
(* The readers on their own: read_events and read_statistics applied to    *)
(* every file of at most MaxLines records drawn from a pool of lines.      *)
(***************************************************************************)
BlankLine == <<"\n">>

EventPool == {EvA, EvB, EvBlanks, EvAOpen, EvShort, EvBadWeight, BlankLine}
StatPool == {StA, StB, StX, StShort, StBadMean}

CountLines == {Line(<<DigitText(n)>>) : n \in 0..(MaxLines + 1)} \cup {Line(<<<<"x">>>>)}

FilesOver(pool) ==
    {<<c>> \o body : c \in CountLines,
                     body \in UNION {[1..k -> pool] : k \in 0..MaxLines}}

InitParse ==
    /\ pc = "read_events"
    /\ err = "none"
    /\ \/ events_text \in FilesOver(EventPool) /\ stats_text = File(2, <<StA, StB>>)
       \/ events_text = File(2, <<EvA, EvB>>) /\ stats_text \in FilesOver(StatPool)
    /\ days_arg = DigitText(0)
    /\ days = 0
    /\ events = EmptyDict
    /\ statistics = EmptyDict
    /\ samples = EmptyDict
    /\ all_events = <<>>
    /\ written = {}
    /\ logdir = FALSE
    /\ logs = EmptyDict
    /\ baseline = EmptyDict
    /\ runs = 1

NextParse == read_events \/ read_statistics

SpecParse == InitParse /\ [][NextParse]_vars

(***************************************************************************)
(* The aggregator on its own: analyze_stats called (as by a module that    *)
(* imports this one) with any keys in events and any log directory of at   *)
(* most MaxRecords files, or the eight values of the documented example.   *)
(***************************************************************************)
InfoOf(n) == [type |-> TypeC, min |-> 0, max |-> Inf, weight |-> 1]

AggEvents == {[n \in K |-> InfoOf(n)] : K \in {{}, {NameA}, {NameA, NameB}, {NameA, DayKey}}}

AggStatistics == {EmptyDict, NameX :> [mean |-> Scale, std_dev |-> Scale]}

\* Values of A in a record: 0.01, 0.02, 1.0; of B: 3.0.  Absent is "no such key".
Absent == 0 - 1
AggValuesA == {2, 4, 200}
AggValuesB == {600}

AggRecord(d, a, b) ==
    [k \in {DayKey} \cup (IF a = Absent THEN {} ELSE {NameA})
                    \cup (IF b = Absent THEN {} ELSE {NameB}) |->
        IF k = NameA THEN a ELSE IF k = NameB THEN b ELSE d * Scale]

AggKinds ==
    {<<TRUE, a, b>> : a \in AggValuesA \cup {Absent}, b \in AggValuesB \cup {Absent}}
    \cup {<<FALSE, a, Absent>> : a \in {4, Absent}}

AggFile(d, kind) ==
    IF kind[1] THEN JsonFile(AggRecord(d, kind[2], kind[3]))
    ELSE CorruptFile(AggRecord(d, kind[2], kind[3]))

AggStorages ==
    {[d \in D |-> AggFile(d, k[d])] : <<D, k>> \in
        UNION {{<<D, k>> : k \in [D -> AggKinds]} : D \in SUBSET (1..MaxRecords)}}

ExampleValues == <<2, 4, 4, 4, 5, 5, 7, 9>>

ExampleStorage ==
    [d \in 1..Len(ExampleValues) |-> JsonFile(AggRecord(d, ExampleValues[d] * Scale, Absent))]

InitAgg ==
    /\ pc = "analyze"
    /\ err = "none"
    /\ events_text = <<>>
    /\ stats_text = <<>>
    /\ days_arg = <<>>
    /\ days = 0
    /\ events \in AggEvents
    /\ statistics \in AggStatistics
    /\ samples = EmptyDict
    /\ all_events = <<>>
    /\ written = {}
    /\ logdir \in BOOLEAN
    /\ logs \in IF logdir THEN AggStorages \cup {ExampleStorage} ELSE {EmptyDict}
    /\ baseline = EmptyDict
    /\ runs = 1

NextAgg == analyze_stats

SpecAgg == InitAgg /\ [][NextAgg]_vars

(***************************************************************************)
(* Claims about generate_events (checked under Spec).                      *)
(***************************************************************************)
\* generate_events has returned in this process.
Generated == pc \in {"analyze", "done"}

Both == Sampled(events, statistics)

\* C1: every value generate_events stores for an event lies within the event's
\* declared bounds, min <= v <= max, in every generated record, whatever was drawn.
C1_WithinBounds ==
    Generated =>
        \A d \in 1..Len(all_events) : \A n \in Both :
            /\ events[n].min <= all_events[d][n]
            /\ all_events[d][n] <= events[n].max

\* C2: for every loaded configuration, generate_events returns exactly days records
\* whose Day fields are 1, 2, ..., days in order, and writes exactly days log files,
\* one per day index.
C2_OneRecordPerDay ==
    /\ pc = "generate" => err = "none"
    /\ Generated =>
          /\ Len(all_events) = days
          /\ \A d \in 1..Len(all_events) : all_events[d][DayKey] = d * Scale
          /\ written = 1..days
          /\ \A d \in written : d \in DOMAIN logs /\ logs[d] = JsonFile(all_events[d])

\* C3: an event name is a key of a generated record if and only if it is a key of
\* both events and statistics.
C3_JoinOnly ==
    Generated =>
        \A d \in 1..Len(all_events) :
            /\ \A n \in DOMAIN events \cup DOMAIN statistics :
                  n \in DOMAIN all_events[d] <=> n \in Both
            /\ \A k \in DOMAIN all_events[d] \ {DayKey} : k \in Both

\* floor(x) for a bound; an absent maximum stays infinite.
FloorOf(x) == IF x = Inf THEN Inf ELSE (x \div Scale) * Scale

\* C9: the value stored for a Discrete event is clamp(trunc(raw), floor(min),
\* floor(max)) for every draw and every pair of bounds (negative fractional bounds
\* and an absent maximum included), and is an integer.
C9_DiscreteClamp ==
    /\ pc = "generate" => err = "none"
    /\ Generated =>
          \A d \in 1..Len(all_events) : \A n \in Both :
              events[n].type # TypeC =>
                  /\ all_events[d][n] =
                        Max2(FloorOf(events[n].min),
                             Min2(IntOf(samples[<<d, n>>]), FloorOf(events[n].max)))
                  /\ all_events[d][n] % Scale = 0

\* C10: the baseline a run returns is computed from exactly the records this run's
\* generate_events wrote, never from log files an earlier run left behind.
C10_OwnRecordsOnly ==
    pc = "done" =>
        baseline \in Baselines(events, [d \in 1..Len(all_events) |-> JsonFile(all_events[d])])

(***************************************************************************)
(* Claims about the readers (checked under SpecParse).                     *)
(***************************************************************************)
\* The number of colon-separated fields of a line.
Arity(l) == Cardinality({i \in 1..Len(Strip(l)) : Strip(l)[i] = ":"}) + 1

\* The lines a reader takes: the first N after the count line.
Taken(text) == {i \in 2..Len(text) : i <= ParseInt(text[1]).val + 1}

FieldsOf(l) == Split(Strip(l))

NumberOr(field, default) == IF field = <<>> THEN default ELSE ParseFloat(field).val

EventBad(l) ==
    \/ FieldsOf(l)[3] # <<>> /\ ~ParseFloat(FieldsOf(l)[3]).ok
    \/ FieldsOf(l)[4] # <<>> /\ ~ParseFloat(FieldsOf(l)[4]).ok
    \/ ~ParseInt(FieldsOf(l)[5]).ok

StatBad(l) == ~ParseFloat(FieldsOf(l)[2]).ok \/ ~ParseFloat(FieldsOf(l)[3]).ok

\* The taken lines of text that have k fields.
Good(text, k) == {i \in Taken(text) : Arity(text[i]) = k}

\* Line i is the last of the k-field taken lines that names its event.
Last(text, k, i) ==
    \A j \in Good(text, k) : FieldsOf(text[j])[1] = FieldsOf(text[i])[1] => j <= i

EventEntry(l) ==
    [type |-> FieldsOf(l)[2], min |-> NumberOr(FieldsOf(l)[3], 0),
     max |-> NumberOr(FieldsOf(l)[4], Inf), weight |-> ParseInt(FieldsOf(l)[5]).val]

StatEntry(l) ==
    [mean |-> ParseFloat(FieldsOf(l)[2]).val, std_dev |-> ParseFloat(FieldsOf(l)[3]).val]

\* events holds exactly the five-field records among the taken lines of text, a
\* later record of a name replacing an earlier one.
HoldsEvents(dict, text) ==
    /\ DOMAIN dict = {FieldsOf(text[i])[1] : i \in Good(text, 5)}
    /\ \A i \in Good(text, 5) :
          Last(text, 5, i) => dict[FieldsOf(text[i])[1]] = EventEntry(text[i])

\* The same of statistics and the four-field records.
HoldsStatistics(dict, text) ==
    /\ DOMAIN dict = {FieldsOf(text[i])[1] : i \in Good(text, 4)}
    /\ \A i \in Good(text, 4) :
          Last(text, 4, i) => dict[FieldsOf(text[i])[1]] = StatEntry(text[i])

\* C7: a record among the first N lines after the count line whose field count is
\* not the expected one (5 for events, 4 for statistics) is skipped and reading goes
\* on: the dict holds exactly the records of the right field count among those N
\* lines; lines beyond N are ignored; a reader fails only on a count line or a
\* number it cannot convert, never on a field count.
C7_MalformedSkipped ==
    /\ pc \in {"read_statistics", "generate"} =>
          /\ HoldsEvents(events, events_text)
          /\ \A i \in Taken(events_text) : Arity(events_text[i]) = 5 => ~EventBad(events_text[i])
    /\ pc = "generate" =>
          /\ HoldsStatistics(statistics, stats_text)
          /\ \A i \in Taken(stats_text) : Arity(stats_text[i]) = 4 => ~StatBad(stats_text[i])
    /\ pc = "read_events" /\ err # "none" =>
          \/ ~ParseInt(events_text[1]).ok
          \/ \E i \in Taken(events_text) : Arity(events_text[i]) = 5 /\ EventBad(events_text[i])
    /\ pc = "read_statistics" /\ err # "none" =>
          \/ ~ParseInt(stats_text[1]).ok
          \/ \E i \in Taken(stats_text) : Arity(stats_text[i]) = 4 /\ StatBad(stats_text[i])

\* A count of 3, three records of which one has four fields, read into two entries.
C7_Witness ==
    /\ pc = "read_statistics" /\ err = "none"
    /\ ParseInt(events_text[1]).val = 3
    /\ Len(events_text) = 4
    /\ Cardinality({i \in 2..4 : Arity(events_text[i]) = 4}) = 1
    /\ Cardinality({i \in 2..4 : Arity(events_text[i]) = 5}) = 2
    /\ Cardinality(DOMAIN events) = 2

(***************************************************************************)
(* Claims about analyze_stats (checked under SpecAgg).                     *)
(***************************************************************************)
\* The log files that are whole JSON documents and hold a value for n.
Holders(n) == {d \in DOMAIN logs : logs[d].ok /\ n \in DOMAIN logs[d].data}

RECURSIVE SumOver(_, _)
SumOver(S, n) ==
    IF S = {} THEN 0
    ELSE LET d == CHOOSE x \in S : TRUE
         IN  logs[d].data[n] + SumOver(S \ {d}, n)

RECURSIVE SquaresOver(_, _)
SquaresOver(S, n) ==
    IF S = {} THEN 0
    ELSE LET d == CHOOSE x \in S : TRUE
         IN  logs[d].data[n] * logs[d].data[n] + SquaresOver(S \ {d}, n)

\* r is a two-decimal value within half a hundredth of total / count.
IsMean(r, total, count) == r % 2 = 0 /\ Abs(r * count - total) <= count

\* r is a two-decimal value within half a hundredth of the population standard
\* deviation, sqrt(squares / count - (total / count)^2).
IsPopulationStdDev(r, total, squares, count) ==
    /\ r % 2 = 0 /\ r >= 0
    /\ count * squares - total * total <= (r + 1) * (r + 1) * count * count
    /\ r > 0 => (r - 1) * (r - 1) * count * count <= count * squares - total * total

\* C4: for each event name that accumulated a value, analyze_stats returns total =
\* the exact sum of its values over all records, mean = total / count rounded to two
\* decimals and std_dev = the population standard deviation rounded to two decimals;
\* a name with no value has no entry.
C4_Statistics ==
    pc = "done" =>
        /\ \A n \in DOMAIN baseline : Holders(n) # {}
        /\ \A n \in DOMAIN events :
              Holders(n) # {} =>
                  /\ n \in DOMAIN baseline
                  /\ baseline[n].total = SumOver(Holders(n), n)
                  /\ IsMean(baseline[n].mean, SumOver(Holders(n), n), Cardinality(Holders(n)))
                  /\ IsPopulationStdDev(baseline[n].std_dev, SumOver(Holders(n), n),
                                        SquaresOver(Holders(n), n), Cardinality(Holders(n)))

\* The values 2, 4, 4, 4, 5, 5, 7, 9 analysed: total 40, mean 5.0, std_dev 2.0.
C4_Witness ==
    /\ pc = "done"
    /\ logs = ExampleStorage
    /\ NameA \in DOMAIN baseline
    /\ baseline[NameA] = [total |-> 40 * Scale, mean |-> 5 * Scale, std_dev |-> 2 * Scale]

C8_NothingToAnalyze ==
    /\ Generated /\ days = 0 => all_events = <<>> /\ written = {}
    /\ pc \in {"analyze", "done"} /\ DOMAIN logs = {} =>
          /\ err = "none"
          /\ pc = "done" => baseline = EmptyDict

====
